---- MODULE Spec2Model ----
(***************************************************************************)
(* A model of the PDF-analysis assistant: the orchestrator analisar_pdfs   *)
(* (src/main.py), the background worker IAWorker and the MainWindow event  *)
(* handlers (src/gui.py).                                                  *)
(*                                                                         *)
(* Texts are sequences of strings: a remote response body is a sequence of *)
(* one-character strings, and the fixed messages of the program are single *)
(* tokens (written without diacritics).                                    *)
(***************************************************************************)
EXTENDS Integers, Sequences, FiniteSets, TLC

\* ---------------------------------------------------------------- bounds
\* longest list handed directly to analisar_pdfs
MaxPaths == 6
\* longest selection made in the window
MaxSel == 1
\* how many signals the window may be behind the worker
MaxInbox == 1
\* longest paragraph text of the exhaustively enumerated templates
MaxPar == 4
\* most lines of a text handed to _extrair_json_puro
MaxLinhas == 4

\* ------------------------------------------------------ program constants
\* caminhos_pdfs[:5]
MaxPdfs == 5
\* range(0, 15, 5) and range(45, 105, 5), and min(p, 100)
PreStart == 0
PreStop == 15
PostStart == 45
PostStop == 105
Step == 5
ProgressMax == 100

VARIABLES
    api_key,        \* OPENAI_API_KEY in the process environment: "set", "unset", or
                    \* "unread" while no call of _get_client has read it yet
    client,         \* the module global _client is not None
    apc,            \* position inside analisar_pdfs
    caminhos_arg,   \* the list analisar_pdfs was called with
    gerar_word,     \* its flag
    pdfs_validos,   \* its local pdfs_validos
    checked,        \* the paths the validation loop has looked at
    file_ids,       \* its local file_ids
    di,             \* index of the cleanup loop
    saida,          \* its local saida
    response,       \* its local response: <<>> while unbound, else <<r>> with r
                    \* the output_text of the answer (see OutputTexts)
    ret,            \* the value returned, or the message of the exception raised
    calls,          \* the remote calls made so far, in order
    delete_failed,  \* some client.files.delete of this call has raised
    nextId,         \* the next artifact identifier the remote service hands out
                    \* (identifiers are numbered from 1 in each call)
    threads,        \* the IAWorker objects alive, oldest first (see NovoWorker)
    worker,         \* MainWindow._worker: an index of threads, 0 for None
    inbox,          \* signals emitted and not yet delivered to the window
    arquivos,       \* MainWindow._arquivos
    btn_run,        \* btn_run.isEnabled()
    btn_cancel,     \* btn_cancel.isEnabled()
    progress,       \* progress.value()
    out,            \* out.toPlainText()
    run_ignored,    \* on_run has returned at its isRunning test since the last start
    pmw,            \* one call of preencher_modelo_word (see PmwIdle)
    ejp,            \* one call of _extrair_json_puro (see EjpIdle)
    te              \* one call of te.analisar_pdfs (see TeIdle)

envVars == <<api_key, client>>
orchVars == <<apc, caminhos_arg, gerar_word, pdfs_validos, checked, file_ids,
              di, saida, response, ret, calls, delete_failed, nextId>>
workerVars == <<threads, worker, inbox>>
guiVars == <<arquivos, btn_run, btn_cancel, progress, out, run_ignored>>
wordVars == <<pmw, ejp>>
vars == <<envVars, orchVars, workerVars, guiVars, wordVars, te>>

\* ------------------------------------------------------------ file system
PdfSuffix == <<".", "p", "d", "f">>

\* the paths of the model: two valid PDFs (one with an upper-case extension),
\* a path that does not exist, a directory, and a file that is no PDF
Paths == {"a.pdf", "b.PDF", "gone.pdf", "dir.pdf", "notes.txt"}

\* Path.suffix
suffix(p) ==
    CASE p = "b.PDF" -> <<".", "P", "D", "F">>
      [] p = "notes.txt" -> <<".", "t", "x", "t">>
      [] OTHER -> PdfSuffix

\* Path.exists()
path_exists(p) == p # "gone.pdf"

\* Path.is_file()
path_is_file(p) == p \notin {"gone.pdf", "dir.pdf"}

LowerChar(c) ==
    CASE c = "P" -> "p"
      [] c = "D" -> "d"
      [] c = "F" -> "f"
      [] OTHER -> c

\* str.lower()
lower(s) == [i \in DOMAIN s |-> LowerChar(s[i])]

\* ------------------------------------------------------------------ texts
\* the lists over S of length at most n
ListasDe(S, n) == UNION {[1..k -> S] : k \in 0..n}

IsSpace(c) == c \in {" ", "\n", "\t", "\r"}

RECURSIVE LStrip(_)
LStrip(t) == IF t # <<>> /\ IsSpace(Head(t)) THEN LStrip(Tail(t)) ELSE t

RECURSIVE RStrip(_)
RStrip(t) ==
    IF t # <<>> /\ IsSpace(t[Len(t)]) THEN RStrip(SubSeq(t, 1, Len(t) - 1)) ELSE t

\* str.strip()
strip(t) == RStrip(LStrip(t))

\* str.startswith()
startswith(t, pre) == Len(t) >= Len(pre) /\ SubSeq(t, 1, Len(pre)) = pre

\* the grave accent U+0060, written "#": a TLA+ string cannot hold that character
Crase == "#"

Fence == <<Crase, Crase, Crase>>

RECURSIVE splitlines(_)
\* str.splitlines() for texts whose line breaks are "\n", "\r" and "\r\n" (one
\* break): the lines without their breaks
splitlines(t) ==
    IF t = <<>> THEN <<>>
    ELSE LET brk == {i \in 1..Len(t) : t[i] \in {"\n", "\r"}}
         IN  IF brk = {} THEN <<t>>
             ELSE LET k == CHOOSE i \in brk : \A j \in brk : i <= j
                      nxt == IF t[k] = "\r" /\ k < Len(t) /\ t[k + 1] = "\n"
                             THEN k + 2 ELSE k + 1
                  IN  <<SubSeq(t, 1, k - 1)>> \o splitlines(SubSeq(t, nxt, Len(t)))

RECURSIVE join(_)
\* "\n".join(linhas)
join(linhas) ==
    IF linhas = <<>> THEN <<>>
    ELSE IF Len(linhas) = 1 THEN linhas[1]
    ELSE linhas[1] \o <<"\n">> \o join(Tail(linhas))

\* the extraction that leaves the closing fence line in place
extrair_json_puro_SemFim(texto) ==
    LET t0 == strip(texto)
    IN  IF startswith(t0, Fence)
        THEN LET l0 == splitlines(t0)
                 l1 == IF l0 # <<>> /\ startswith(l0[1], Fence) THEN Tail(l0) ELSE l0
             IN  strip(join(l1))
        ELSE t0

\* _extrair_json_puro
extrair_json_puro(texto) ==
    LET t0 == strip(texto)
    IN  IF startswith(t0, Fence)
        THEN LET l0 == splitlines(t0)
                 l1 == IF l0 # <<>> /\ startswith(l0[1], Fence) THEN Tail(l0) ELSE l0
                 l2 == IF l1 # <<>> /\ startswith(l1[Len(l1)], Fence)
                       THEN SubSeq(l1, 1, Len(l1) - 1) ELSE l1
             IN  strip(join(l2))
        ELSE t0

\* json.loads followed by isinstance(dados, dict), on the texts of the model:
\* "object" for a JSON object, "other" for another JSON value, "invalid" when
\* json.loads raises
JsonKind(t) ==
    IF Len(t) >= 2 /\ t[1] = "{" /\ t[Len(t)] = "}" THEN "object"
    ELSE IF Len(t) >= 2 /\ t[1] = "[" /\ t[Len(t)] = "]" THEN "other"
    ELSE "invalid"

\* the bodies the remote agent may answer with
Texts ==
    { <<>>,
      <<" ">>,
      <<" ", "o", "k", "\n">>,
      <<"{", "}">>,
      <<"[", "]">>,
      Fence \o <<"\n", "{", "}", "\n">> \o Fence }

\* response.output_text: None, or a text
OutputTexts ==
    {[is_none |-> TRUE, text |-> <<>>]} \cup {[is_none |-> FALSE, text |-> t] : t \in Texts}

\* the fixed messages
SemConteudo == <<"(Sem conteudo retornado pelo agente.)">>
ErroNenhumPdf == <<"Erro: nenhum PDF informado.">>
ErroNaoEncontrado(p) == <<"Erro: arquivo nao encontrado: ", p>>
ErroNaoPdf(p) == <<"Erro: arquivo nao e PDF: ", p>>
ErroConsulta(exc) == <<"Erro ao consultar a IA: ">> \o exc
SemChave == <<"OPENAI_API_KEY nao encontrada.">>
Aviso(exc) ==
    <<"\n\n[AVISO] Nao foi possivel gerar o Word a partir da resposta JSON: ", exc>>
WordGerado(caminho) == <<"\n\nPeticao Word gerada em:\n", caminho>>
Cancelada == <<"Execucao cancelada.">>

\* ------------------------------------------------------------ remote calls
\* an entry of the call log; ok tells whether an upload or analyze call returned
\* (a delete call is logged as attempted: its failure changes nothing but
\* delete_failed)
UploadCall(p, ok, id) == [op |-> "upload", path |-> p, ids |-> <<>>, id |-> id, ok |-> ok]
AnalyzeCall(ids, ok) == [op |-> "analyze", path |-> "", ids |-> ids, id |-> 0, ok |-> ok]
DeleteCall(id) == [op |-> "delete", path |-> "", ids |-> <<>>, id |-> id, ok |-> TRUE]

\* ---------------------------------------------------------- analisar_pdfs
\* a slip of the slice: the whole list is kept
Truncar_Tudo(ps) == ps

\* caminhos_pdfs[:5]
Truncar(ps) == SubSeq(ps, 1, IF Len(ps) < MaxPdfs THEN Len(ps) ELSE MaxPdfs)

\* the validation without its is_file test
ValidarArquivo_SemIsFile(p) ==
    IF ~path_exists(p) THEN ErroNaoEncontrado(p)
    ELSE IF lower(suffix(p)) # PdfSuffix THEN ErroNaoPdf(p)
    ELSE <<>>

\* one pass of the validation loop body: the error it returns for p, or <<>>
ValidarArquivo(p) ==
    IF ~path_exists(p) \/ ~path_is_file(p) THEN ErroNaoEncontrado(p)
    ELSE IF lower(suffix(p)) # PdfSuffix THEN ErroNaoPdf(p)
    ELSE <<>>

RECURSIVE PrimeiroInvalido(_, _)
\* the index at which the validation loop returns, 0 when it runs to its end
PrimeiroInvalido(ps, i) ==
    IF i > Len(ps) THEN 0
    ELSE IF ValidarArquivo(ps[i]) # <<>> THEN i
    ELSE PrimeiroInvalido(ps, i + 1)

\* the call of analisar_pdfs up to the end of its validation loop
Chamar(cs, gw) ==
    /\ caminhos_arg' = cs
    /\ gerar_word' = gw
    /\ file_ids' = <<>>
    /\ di' = 1
    /\ saida' = <<>>
    /\ response' = <<>>
    /\ calls' = <<>>
    /\ delete_failed' = FALSE
    /\ IF cs = <<>>
       THEN /\ ret' = ErroNenhumPdf
            /\ apc' = "returned"
            /\ pdfs_validos' = <<>>
            /\ checked' = <<>>
       ELSE LET ps == Truncar(cs)
                bad == PrimeiroInvalido(ps, 1)
            IN  IF bad # 0
                THEN /\ ret' = ValidarArquivo(ps[bad])
                     /\ apc' = "returned"
                     /\ pdfs_validos' = SubSeq(ps, 1, bad - 1)
                     /\ checked' = SubSeq(ps, 1, bad)
                ELSE /\ ret' = <<>>
                     /\ apc' = "get_client"
                     /\ pdfs_validos' = ps
                     /\ checked' = ps
    /\ nextId' = 1
    /\ UNCHANGED <<te, wordVars, envVars>>

\* client = _get_client(): the cached client, or os.getenv and a new client,
\* or RuntimeError, which leaves analisar_pdfs (the call is outside its try)
GetClient ==
    /\ apc = "get_client"
    /\ IF client
       THEN /\ apc' = "upload"
            /\ UNCHANGED <<api_key, client, ret>>
       ELSE /\ api_key' \in (IF api_key = "unread" THEN {"set", "unset"} ELSE {api_key})
            /\ IF api_key' = "set"
               THEN /\ client' = TRUE
                    /\ apc' = "upload"
                    /\ ret' = ret
               ELSE /\ client' = FALSE
                    /\ apc' = "raised"
                    /\ ret' = SemChave
    /\ UNCHANGED <<te, wordVars, caminhos_arg, gerar_word, pdfs_validos, checked, file_ids,
                   di, saida, response, calls, delete_failed, nextId, workerVars, guiVars>>

\* an error path that returns without the cleanup of the finally block
Except_SemCleanup(exc) ==
    /\ ret' = ErroConsulta(exc)
    /\ apc' = "returned"

\* the handler "except Exception as exc" of analisar_pdfs
Except(exc) ==
    /\ ret' = ErroConsulta(exc)
    /\ apc' = "cleanup"

\* the content list without order: the newest identifier first
Conteudo_Invertido(ids) == [i \in 1..Len(ids) |-> ids[Len(ids) + 1 - i]]

\* the content list: one input_file entry per identifier, in the order of file_ids
Conteudo(ids) == ids

\* one pass of the upload loop
Upload ==
    /\ apc = "upload"
    /\ Len(file_ids) < Len(pdfs_validos)
    /\ LET p == pdfs_validos[Len(file_ids) + 1]
       IN  \/ /\ file_ids' = Append(file_ids, nextId)
              /\ calls' = Append(calls, UploadCall(p, TRUE, nextId))
              /\ nextId' = nextId + 1
              /\ UNCHANGED <<apc, ret>>
           \/ /\ calls' = Append(calls, UploadCall(p, FALSE, 0))
              /\ Except(<<"upload">>)
              /\ UNCHANGED <<file_ids, nextId>>
           \/ /\ Except(<<"open">>)
              /\ UNCHANGED <<file_ids, nextId, calls>>
    /\ UNCHANGED <<te, wordVars, envVars, caminhos_arg, gerar_word, pdfs_validos, checked, di, saida, response,
                   delete_failed, workerVars, guiVars>>

\* the analyze step without the sentinel of lines 242-243
Analyze_SemSentinela ==
    /\ apc = "upload"
    /\ Len(file_ids) = Len(pdfs_validos)
    /\ LET conteudo == Conteudo(file_ids)
       IN  \/ \E o \in OutputTexts :
                LET s == strip(IF o.is_none THEN <<>> ELSE o.text)
                IN  /\ calls' = Append(calls, AnalyzeCall(conteudo, TRUE))
                    /\ response' = <<o>>
                    /\ saida' = s
                    /\ IF gerar_word
                       THEN /\ apc' = "fill"
                            /\ ret' = ret
                       ELSE /\ apc' = "cleanup"
                            /\ ret' = s
           \/ /\ calls' = Append(calls, AnalyzeCall(conteudo, FALSE))
              /\ Except(<<"analyze">>)
              /\ UNCHANGED <<saida, response>>
    /\ UNCHANGED <<te, wordVars, envVars, caminhos_arg, gerar_word, pdfs_validos, checked,
                   file_ids, di, delete_failed, nextId, workerVars, guiVars>>

\* the content list and client.responses.create, then saida
Analyze ==
    /\ apc = "upload"
    /\ Len(file_ids) = Len(pdfs_validos)
    /\ LET conteudo == Conteudo(file_ids)
       IN  \/ \E o \in OutputTexts :
                LET s0 == strip(IF o.is_none THEN <<>> ELSE o.text)
                    s == IF s0 = <<>> THEN SemConteudo ELSE s0
                IN  /\ calls' = Append(calls, AnalyzeCall(conteudo, TRUE))
                    /\ response' = <<o>>
                    /\ saida' = s
                    /\ IF gerar_word
                       THEN /\ apc' = "fill"
                            /\ ret' = ret
                       ELSE /\ apc' = "cleanup"
                            /\ ret' = s
           \/ /\ calls' = Append(calls, AnalyzeCall(conteudo, FALSE))
              /\ Except(<<"analyze">>)
              /\ UNCHANGED <<saida, response>>
    /\ UNCHANGED <<te, wordVars, envVars, caminhos_arg, gerar_word, pdfs_validos, checked, file_ids, di,
                   delete_failed, nextId, workerVars, guiVars>>

\* the outcomes of preencher_modelo_word for a JSON object
FillOutcomes == {"ok", "Modelo Word nao encontrado", "save"}

\* a fill whose failure note replaces the analysis text
Fill_SoAviso ==
    /\ apc = "fill"
    /\ LET kind == JsonKind(extrair_json_puro(saida))
       IN  \E o \in FillOutcomes :
             LET nota == IF kind = "invalid" THEN Aviso("JSONDecodeError")
                         ELSE IF kind # "object"
                              THEN Aviso("JSON nao e um objeto/dicionario.")
                         ELSE IF o = "ok"
                              THEN WordGerado("app/Pet_inicial_Pet_inicial.docx")
                         ELSE Aviso(o)
             IN  /\ saida' = (IF nota[1] = Aviso("")[1] THEN nota ELSE saida \o nota)
                 /\ ret' = saida'
    /\ apc' = "cleanup"
    /\ UNCHANGED <<te, wordVars, envVars, caminhos_arg, gerar_word, pdfs_validos, checked,
                   file_ids, di, response, calls, delete_failed, nextId, workerVars,
                   guiVars>>

\* the optional fill: lines 246-261
Fill ==
    /\ apc = "fill"
    /\ LET kind == JsonKind(extrair_json_puro(saida))
       IN  \E o \in FillOutcomes :
             LET nota == IF kind = "invalid" THEN Aviso("JSONDecodeError")
                         ELSE IF kind # "object"
                              THEN Aviso("JSON nao e um objeto/dicionario.")
                         ELSE IF o = "ok"
                              THEN WordGerado("app/Pet_inicial_Pet_inicial.docx")
                         ELSE Aviso(o)
             IN  /\ saida' = saida \o nota
                 /\ ret' = saida \o nota
    /\ apc' = "cleanup"
    /\ UNCHANGED <<te, wordVars, envVars, caminhos_arg, gerar_word, pdfs_validos, checked, file_ids, di,
                   response, calls, delete_failed, nextId, workerVars, guiVars>>

\* a delete loop that a failed delete brings to its end
Cleanup_Interrompe ==
    /\ apc = "cleanup"
    /\ di <= Len(file_ids)
    /\ calls' = Append(calls, DeleteCall(file_ids[di]))
    /\ \E ok \in BOOLEAN :
          /\ delete_failed' = (delete_failed \/ ~ok)
          /\ di' = IF ok THEN di + 1 ELSE Len(file_ids) + 1
    /\ UNCHANGED <<te, wordVars, envVars, apc, caminhos_arg, gerar_word, pdfs_validos, checked,
                   file_ids, saida, response, ret, nextId, workerVars, guiVars>>

\* one pass of the delete loop of the finally block
Cleanup ==
    /\ apc = "cleanup"
    /\ di <= Len(file_ids)
    /\ calls' = Append(calls, DeleteCall(file_ids[di]))
    /\ \E ok \in BOOLEAN : delete_failed' = (delete_failed \/ ~ok)
    /\ di' = di + 1
    /\ UNCHANGED <<te, wordVars, envVars, apc, caminhos_arg, gerar_word, pdfs_validos, checked,
                   file_ids, saida, response, ret, nextId, workerVars, guiVars>>

\* the end of the finally block: the pending return completes
Return ==
    /\ apc = "cleanup"
    /\ di > Len(file_ids)
    /\ apc' = "returned"
    /\ UNCHANGED <<te, wordVars, envVars, caminhos_arg, gerar_word, pdfs_validos, checked, file_ids,
                   di, saida, response, ret, calls, delete_failed, nextId, workerVars, guiVars>>

\* ------------------------------------------------------ te.analisar_pdfs
\* The analysis-only variant in te.py, called with the list main.analisar_pdfs
\* was called with once that call is over, and facing the same environment:
\* the same files, the same OPENAI_API_KEY, and a remote agent that gives the
\* n-th call the outcome it gave the n-th call of main.analisar_pdfs when the
\* two calls are the same.  te.py has its own _client.

\* no call of te.analisar_pdfs yet
TeIdle ==
    [pc |-> "idle", client |-> FALSE, pdfs_validos |-> <<>>, file_ids |-> <<>>,
     di |-> 1, calls |-> <<>>, ret |-> <<>>]

\* the outcomes the agent may give the next upload of te.analisar_pdfs: the
\* one it gave main.analisar_pdfs for that call, any when that call was not made
TeUploadOutcomes(p) ==
    LET n == Len(te.calls) + 1
    IN  IF n <= Len(calls) /\ calls[n].op = "upload" /\ calls[n].path = p
        THEN {calls[n]}
        ELSE {UploadCall(p, TRUE, Len(te.file_ids) + 1), UploadCall(p, FALSE, 0)}

\* open(p, "rb") fails for te.analisar_pdfs where it failed for main.analisar_pdfs
TeOpenFails ==
    /\ ret = ErroConsulta(<<"open">>)
    /\ Len(SelectSeq(calls, LAMBDA c : c.op = "upload")) = Len(te.file_ids)
    /\ \A i \in DOMAIN te.calls : te.calls[i].ok

\* the outcomes the agent may give the analyze call of te.analisar_pdfs
TeAnalyzeOutcomes(ids) ==
    LET n == Len(te.calls) + 1
    IN  IF n <= Len(calls) /\ calls[n].op = "analyze" /\ calls[n].ids = ids
        THEN {[ok |-> calls[n].ok, out |-> response]}
        ELSE {[ok |-> FALSE, out |-> <<>>]}
             \cup {[ok |-> TRUE, out |-> <<o>>] : o \in OutputTexts}

\* the text returned without the sentinel of line 87
TeSaida_SemSentinela(o) == strip(IF o.is_none THEN <<>> ELSE o.text)

\* te.py lines 86-87: saida, or the sentinel
TeSaida(o) ==
    LET s == strip(IF o.is_none THEN <<>> ELSE o.text)
    IN  IF s = <<>> THEN SemConteudo ELSE s

\* te.py lines 38-55: the call, up to the end of the validation loop
TeChamar ==
    /\ apc \in {"returned", "raised"}
    /\ ~gerar_word
    /\ te.pc = "idle"
    /\ IF caminhos_arg = <<>>
       THEN te' = [te EXCEPT !.pc = "returned", !.ret = ErroNenhumPdf]
       ELSE LET ps == Truncar(caminhos_arg)
                bad == PrimeiroInvalido(ps, 1)
            IN  IF bad # 0
                THEN te' = [te EXCEPT !.pc = "returned", !.ret = ValidarArquivo(ps[bad]),
                                      !.pdfs_validos = SubSeq(ps, 1, bad - 1)]
                ELSE te' = [te EXCEPT !.pc = "get_client", !.pdfs_validos = ps]
    /\ UNCHANGED <<envVars, orchVars, workerVars, guiVars, wordVars>>

\* te.py lines 19-31 and 57: _get_client, outside the try
TeGetClient ==
    /\ te.pc = "get_client"
    /\ IF te.client
       THEN /\ te' = [te EXCEPT !.pc = "upload"]
            /\ UNCHANGED api_key
       ELSE /\ api_key' \in (IF api_key = "unread" THEN {"set", "unset"} ELSE {api_key})
            /\ IF api_key' = "set"
               THEN te' = [te EXCEPT !.pc = "upload", !.client = TRUE]
               ELSE te' = [te EXCEPT !.pc = "raised", !.ret = SemChave]
    /\ UNCHANGED <<client, orchVars, workerVars, guiVars, wordVars>>

\* te.py lines 89-90: the handler "except Exception as exc"
TeExcept(exc) == [te EXCEPT !.pc = "cleanup", !.ret = ErroConsulta(exc)]

\* te.py lines 62-65: one pass of the upload loop
TeUpload ==
    /\ te.pc = "upload"
    /\ Len(te.file_ids) < Len(te.pdfs_validos)
    /\ LET p == te.pdfs_validos[Len(te.file_ids) + 1]
       IN  IF TeOpenFails
           THEN te' = TeExcept(<<"open">>)
           ELSE \E c \in TeUploadOutcomes(p) :
                  IF c.ok
                  THEN te' = [te EXCEPT !.file_ids = Append(@, c.id),
                                        !.calls = Append(@, c)]
                  ELSE te' = [TeExcept(<<"upload">>) EXCEPT !.calls = Append(@, c)]
    /\ UNCHANGED <<envVars, orchVars, workerVars, guiVars, wordVars>>

\* te.py lines 68-87: the content list, client.responses.create and the return
TeAnalyze ==
    /\ te.pc = "upload"
    /\ Len(te.file_ids) = Len(te.pdfs_validos)
    /\ LET conteudo == te.file_ids
       IN  \E r \in TeAnalyzeOutcomes(conteudo) :
             IF r.ok
             THEN te' = [te EXCEPT !.calls = Append(@, AnalyzeCall(conteudo, TRUE)),
                                   !.ret = TeSaida(r.out[1]),
                                   !.pc = "cleanup"]
             ELSE te' = [TeExcept(<<"analyze">>) EXCEPT
                             !.calls = Append(@, AnalyzeCall(conteudo, FALSE))]
    /\ UNCHANGED <<envVars, orchVars, workerVars, guiVars, wordVars>>

\* te.py lines 92-102: one pass of the delete loop of the finally block
TeCleanup ==
    /\ te.pc = "cleanup"
    /\ te.di <= Len(te.file_ids)
    /\ te' = [te EXCEPT !.calls = Append(@, DeleteCall(te.file_ids[te.di])),
                        !.di = @ + 1]
    /\ UNCHANGED <<envVars, orchVars, workerVars, guiVars, wordVars>>

\* the end of the finally block: the pending return completes
TeReturn ==
    /\ te.pc = "cleanup"
    /\ te.di > Len(te.file_ids)
    /\ te' = [te EXCEPT !.pc = "returned"]
    /\ UNCHANGED <<envVars, orchVars, workerVars, guiVars, wordVars>>

\* ------------------------------------------------- preencher_modelo_word
\* a JSON value of the agent's object: null, or a value whose str() is text
NoneVal == [is_none |-> TRUE, text |-> <<>>]
Str(t) == [is_none |-> FALSE, text |-> t]

UpperChar(c) ==
    CASE c = "s" -> "S"
      [] c = "i" -> "I"
      [] c = "m" -> "M"
      [] c = "n" -> "N"
      [] c = "a" -> "A"
      [] c = "o" -> "O"
      [] OTHER -> c

\* an uppercasing that does nothing
upper_Nada(s) == s

\* str.upper()
upper(s) == [i \in DOMAIN s |-> UpperChar(s[i])]

\* the fixed clause of lines 93-105, as one token
Clausula == <<"C)\tDA JUSTICA GRATUITA ... e provas a ela anexadas.">>

\* the copy loop without its strip
Copiar_SemStrip(dados) ==
    LET keep == {k \in DOMAIN dados : ~dados[k].is_none /\ strip(dados[k].text) # <<>>}
    IN  [k \in keep |-> dados[k].text]

\* the copy loop of lines 78-86: dados_preparados before the special rule
Copiar(dados) ==
    LET keep == {k \in DOMAIN dados : ~dados[k].is_none /\ strip(dados[k].text) # <<>>}
    IN  [k \in keep |-> strip(dados[k].text)]

\* the rule of lines 90-110, applied to dados_preparados
RegraVinculo(dp) ==
    IF "VINCULO_COM_TRABALHO" \in DOMAIN dp
    THEN [dp EXCEPT !["VINCULO_COM_TRABALHO"] =
             IF strip(upper(@)) = <<"S", "I", "M">> THEN Clausula ELSE <<>>]
    ELSE dp

\* str.find(c, i): the first index from i on (counted from 1) where c stands,
\* 0 for the -1 of "not found"
find(t, c, i) ==
    LET hits == {k \in i..Len(t) : t[k] = c}
    IN  IF hits = {} THEN 0 ELSE CHOOSE k \in hits : \A h \in hits : k <= h

\* a lookup that leaves an unknown placeholder in the text
Get_Mantem(dp, chave) ==
    IF Len(chave) = 1 /\ chave[1] \in DOMAIN dp THEN dp[chave[1]]
    ELSE <<"{">> \o chave \o <<"}">>

\* a lookup that leaves the opening brace in front of the value
Get_ComChave(dp, chave) ==
    IF Len(chave) = 1 /\ chave[1] \in DOMAIN dp THEN <<"{">> \o dp[chave[1]] ELSE <<>>

\* dados_preparados.get(chave, ""): a key of the record is one token of a text
Get(dp, chave) ==
    IF Len(chave) = 1 /\ chave[1] \in DOMAIN dp THEN dp[chave[1]] ELSE <<>>

Segmento(tipo, texto) == [tipo |-> tipo, texto |-> texto]

RECURSIVE Concat(_)
\* the texts of a list of segments or runs, one after the other: p.text
Concat(gs) == IF gs = <<>> THEN <<>> ELSE Head(gs).texto \o Concat(Tail(gs))

\* AZUL = RGBColor(0, 0, 255)
AZUL == "0000FF"

\* the explicit font of a run: colour, name and size in points
Fonte(rgb, name, size) == [rgb |-> rgb, name |-> name, size |-> size]

\* a run with no explicit font
SemFonte == Fonte("", "", 0)

\* a styling applied to every run
Estilizar_Sempre(tipo) == Fonte(AZUL, "Bookman Old Style", 12)

\* lines 154-157: the font set on the run added for a segment
Estilizar(tipo) ==
    IF tipo = "valor" THEN Fonte(AZUL, "Bookman Old Style", 12) ELSE SemFonte

\* run = p.add_run(texto), styled
Run(tipo, texto) == [tipo |-> tipo, texto |-> texto, fonte |-> Estilizar(tipo)]

\* a paragraph object: its style and its runs
Paragrafo(style, runs) == [style |-> style, runs |-> runs]

\* the styles a paragraph of a template has
Estilos == {"Normal", "Title"}

\* the font the runs of a template carry
FonteDoModelo == Fonte("000000", "Arial", 11)

\* a paragraph of a template with text t: Word keeps it as several runs, here
\* one run per token
ParagrafoDoModelo(t, style) ==
    Paragrafo(style, [i \in 1..Len(t) |->
                         [tipo |-> "original", texto |-> <<t[i]>>, fonte |-> FonteDoModelo]])

\* a scanner that reads an unterminated placeholder as a key up to the end
RECURSIVE Segmentar_FechaNoFim(_, _, _)
Segmentar_FechaNoFim(full, i, dp) ==
    IF i > Len(full) THEN <<>>
    ELSE IF full[i] = "{"
    THEN LET j == find(full, "}", i + 1)
         IN  IF j = 0
             THEN <<Segmento("valor", Get(dp, SubSeq(full, i + 1, Len(full))))>>
             ELSE <<Segmento("valor", Get(dp, SubSeq(full, i + 1, j - 1)))>>
                  \o Segmentar_FechaNoFim(full, j + 1, dp)
    ELSE LET prox == find(full, "{", i)
         IN  IF prox = 0
             THEN <<Segmento("fixo", SubSeq(full, i, Len(full)))>>
             ELSE <<Segmento("fixo", SubSeq(full, i, prox - 1))>>
                  \o Segmentar_FechaNoFim(full, prox, dp)

RECURSIVE Segmentar(_, _, _)
\* the while loop of processar_paragrafo from index i on: the list segmentos
Segmentar(full, i, dp) ==
    IF i > Len(full) THEN <<>>
    ELSE IF full[i] = "{"
    THEN LET j == find(full, "}", i + 1)
         IN  IF j = 0
             THEN <<Segmento("fixo", SubSeq(full, i, Len(full)))>>
             ELSE <<Segmento("valor", Get(dp, SubSeq(full, i + 1, j - 1)))>>
                  \o Segmentar(full, j + 1, dp)
    ELSE LET prox == find(full, "{", i)
         IN  IF prox = 0
             THEN <<Segmento("fixo", SubSeq(full, i, Len(full)))>>
             ELSE <<Segmento("fixo", SubSeq(full, i, prox - 1))>>
                  \o Segmentar(full, prox, dp)

\* processar_paragrafo(p): the segments built, and the runs and the style of
\* the paragraph afterwards (those it had when the function returns at its
\* first test)
processar_paragrafo(p, dp) ==
    LET full == Concat(p.runs)
    IN  IF find(full, "{", 1) = 0 \/ find(full, "}", 1) = 0
        THEN [segmentos |-> <<>>, runs |-> p.runs, style |-> p.style]
        ELSE LET segs == Segmentar(full, 1, dp)
                 cheios == SelectSeq(segs, LAMBDA g : g.texto # <<>>)
             IN  [segmentos |-> segs,
                  runs |-> [k \in 1..Len(cheios) |-> Run(cheios[k].tipo, cheios[k].texto)],
                  style |-> p.style]

\* "Pet_inicial"
PetInicial == <<"P", "e", "t", "_", "i", "n", "i", "c", "i", "a", "l">>

\* the characters of the model for which str.isalnum() holds
Alnum == {"P", "e", "t", "i", "n", "c", "a", "l", "J", "o", "s", "m", "S", "I", "M", "1"}

\* a test that lets every character through
isalnum_Tudo(c) == TRUE

\* str.isalnum()
isalnum(c) == c \in Alnum

\* lines 171-175: the sanitized base name
NomeBase(dp) ==
    LET n0 == strip(IF "NOME_CLIENTE" \in DOMAIN dp THEN dp["NOME_CLIENTE"] ELSE PetInicial)
        n1 == strip(SelectSeq(n0, LAMBDA c : isalnum(c) \/ c \in {" ", "_", "-"}))
    IN  IF n1 = <<>> THEN PetInicial ELSE n1

\* a path: its directory and its file name
Caminho(dir, name) == [dir |-> dir, name |-> name]

\* caminho_modelo.with_name(f"Pet_inicial_{nome_base}.docx")
SaidaPath(modelo, nome_base) ==
    Caminho(modelo.dir, PetInicial \o <<"_">> \o nome_base \o <<".docx">>)

\* MODELO_WORD: "Pet Inicial modelo para IA.docx" beside the program
MODELO_WORD ==
    Caminho("app", <<"P", "e", "t", " ", "I", "n", "i", "c", "i", "a", "l",
                     " modelo para IA", ".docx">>)

\* the templates a caller may pass as caminho_modelo
Modelos == {MODELO_WORD, Caminho("casos", PetInicial \o <<"_", "J", "o", ".docx">>)}

\* the values of the agent's object, per key
ValoresVinculo ==
    {NoneVal, Str(<<>>), Str(<<" ">>), Str(<<"s", "i", "m">>), Str(<<"S", "I", "M">>),
     Str(<<" ", "S", "i", "m", "\n">>), Str(<<"n", "a", "o">>), Str(<<"s", "i", "m", "m">>)}
ValoresNome ==
    {NoneVal, Str(<<" ", "\t">>), Str(<<"J", "o">>), Str(<<" ", "J", "/", "o", " ">>),
     Str(<<"*", "/">>), Str(<<"-", " ", "1", "_", " ", ".">>)}
ValoresChave == {Str(<<"v">>), Str(<<"{", "CHAVE", "}">>), Str(<<"}", "{">>)}

\* the objects with the keys NOME_CLIENTE and VINCULO_COM_TRABALHO, or neither
DadosRicos ==
    LET fs == UNION {[S -> ValoresVinculo \cup ValoresNome] :
                       S \in SUBSET {"NOME_CLIENTE", "VINCULO_COM_TRABALHO"}}
    IN  {f \in fs :
           /\ "NOME_CLIENTE" \in DOMAIN f => f["NOME_CLIENTE"] \in ValoresNome
           /\ "VINCULO_COM_TRABALHO" \in DOMAIN f
                 => f["VINCULO_COM_TRABALHO"] \in ValoresVinculo}

\* the objects with at most the key CHAVE
DadosChave == UNION {[S -> ValoresChave] : S \in SUBSET {"CHAVE"}}

\* templates written by hand: paragraphs of the body followed by paragraphs
\* of table cells
DocsFixos ==
    { <<>>,
      << <<"{", "VINCULO_COM_TRABALHO", "}", " ", "{", "VINCULO_COM_TRABALHO", "}">>,
         <<"{", "NOME_CLIENTE", "}">> >>,
      << <<"a">>, <<>>, <<"{", "VINCULO_COM_TRABALHO", "}">> >> }

\* every one-paragraph template over a small alphabet
Alfabeto == {"{", "}", "CHAVE", "a"}
DocsTodos == {<<t>> : t \in ListasDe(Alfabeto, MaxPar)}

\* the calls of preencher_modelo_word the model makes
Entradas ==
    (DadosRicos \X DocsFixos \X Modelos) \cup (DadosChave \X DocsTodos \X {MODELO_WORD})

\* no call of preencher_modelo_word yet
PmwIdle ==
    [pc |-> "idle", dados |-> <<>>, modelo |-> MODELO_WORD, doc |-> <<>>,
     estilo |-> "Normal", dp |-> <<>>, pars |-> <<>>, saida_path |-> Caminho("", <<>>), exc |-> ""]

\* the call, and lines 68-74: the template is looked for and opened
PmwCall ==
    /\ pmw.pc = "idle"
    /\ \E e \in Entradas, existe \in BOOLEAN, st \in Estilos :
          pmw' = [PmwIdle EXCEPT !.dados = e[1], !.doc = e[2], !.modelo = e[3],
                                 !.estilo = st,
                                 !.pc = IF existe THEN "prepare" ELSE "raised",
                                 !.exc = IF existe THEN ""
                                         ELSE "Modelo Word nao encontrado"]
    /\ UNCHANGED <<te, ejp, envVars, orchVars, workerVars, guiVars>>

\* lines 78-110: dados_preparados
PmwPreparar ==
    /\ pmw.pc = "prepare"
    /\ pmw' = [pmw EXCEPT !.dp = RegraVinculo(Copiar(pmw.dados)), !.pc = "paragraphs"]
    /\ UNCHANGED <<te, ejp, envVars, orchVars, workerVars, guiVars>>

\* lines 160-168: processar_paragrafo on the next paragraph of the document
PmwParagrafo ==
    /\ pmw.pc = "paragraphs"
    /\ Len(pmw.pars) < Len(pmw.doc)
    /\ pmw' = [pmw EXCEPT !.pars =
                  Append(@, processar_paragrafo(
                                ParagrafoDoModelo(pmw.doc[Len(pmw.pars) + 1], pmw.estilo),
                                pmw.dp))]
    /\ UNCHANGED <<te, ejp, envVars, orchVars, workerVars, guiVars>>

\* lines 171-179: the output name, doc.save and the return
PmwSalvar ==
    /\ pmw.pc = "paragraphs"
    /\ Len(pmw.pars) = Len(pmw.doc)
    /\ \E ok \in BOOLEAN :
          pmw' = [pmw EXCEPT !.saida_path = SaidaPath(pmw.modelo, NomeBase(pmw.dp)),
                             !.pc = IF ok THEN "returned" ELSE "raised",
                             !.exc = IF ok THEN "" ELSE "save"]
    /\ UNCHANGED <<te, ejp, envVars, orchVars, workerVars, guiVars>>

\* ---------------------------------------------------- _extrair_json_puro
RECURSIVE JoinWith(_, _)
\* the lines ls with the line break sep between them
JoinWith(ls, sep) ==
    IF ls = <<>> THEN <<>>
    ELSE IF Len(ls) = 1 THEN ls[1]
    ELSE ls[1] \o sep \o JoinWith(Tail(ls), sep)

\* the line breaks of the texts
Seps == {<<"\n">>, <<"\r", "\n">>, <<"\r">>}

\* the lines the texts are made of
Linhas == {<<>>, Fence, Fence \o <<"j", "s", "o", "n">>, <<"{", "}">>, <<"{">>, <<"}">>}

\* the texts handed to _extrair_json_puro: up to MaxLinhas lines with one kind
\* of line break, with or without white space around them
TextosEjp ==
    {ini \o JoinWith(ls, sep) \o fim :
        ini \in {<<>>, <<" ">>}, fim \in {<<>>, <<"\n">>},
        sep \in Seps, ls \in ListasDe(Linhas, MaxLinhas)}

\* no call of _extrair_json_puro yet
EjpIdle == [pc |-> "idle", texto |-> <<>>, res |-> <<>>]

\* _extrair_json_puro(texto) is called, from analisar_pdfs or on_generate_word
EjpCall ==
    /\ ejp.pc = "idle"
    /\ \E t \in TextosEjp : ejp' = [pc |-> "called", texto |-> t, res |-> <<>>]
    /\ UNCHANGED <<te, pmw, envVars, orchVars, workerVars, guiVars>>

\* and returns
EjpReturn ==
    /\ ejp.pc = "called"
    /\ ejp' = [ejp EXCEPT !.pc = "returned", !.res = extrair_json_puro(ejp.texto)]
    /\ UNCHANGED <<te, pmw, envVars, orchVars, workerVars, guiVars>>

\* ------------------------------------------------------------------- Init
Init ==
    /\ api_key = "unread"
    /\ client = FALSE
    /\ apc = "idle"
    /\ caminhos_arg = <<>>
    /\ gerar_word = FALSE
    /\ pdfs_validos = <<>>
    /\ checked = <<>>
    /\ file_ids = <<>>
    /\ di = 1
    /\ saida = <<>>
    /\ response = <<>>
    /\ ret = <<>>
    /\ calls = <<>>
    /\ delete_failed = FALSE
    /\ nextId = 1
    /\ threads = <<>>
    /\ worker = 0
    /\ inbox = <<>>
    /\ arquivos = <<>>
    /\ btn_run = TRUE
    /\ btn_cancel = FALSE
    /\ progress = 0
    /\ out = <<>>
    /\ run_ignored = FALSE
    /\ pmw = PmwIdle
    /\ ejp = EjpIdle
    /\ te = TeIdle

\* ------------------------------------------- analisar_pdfs called directly
\* the program entry of main.py: one call of analisar_pdfs
DirectCall ==
    /\ apc = "idle"
    /\ \E cs \in ListasDe(Paths, MaxPaths), gw \in BOOLEAN : Chamar(cs, gw)
    /\ UNCHANGED <<workerVars, guiVars>>

NextMain == DirectCall \/ GetClient \/ Upload \/ Analyze \/ Fill \/ Cleanup \/ Return

SpecMain == Init /\ [][NextMain]_vars

\* ------------------------------------ preencher_modelo_word called directly
NextWord == PmwCall \/ PmwPreparar \/ PmwParagrafo \/ PmwSalvar

SpecWord == Init /\ [][NextWord]_vars

\* ---------------------------------------- _extrair_json_puro called directly
NextExtrair == EjpCall \/ EjpReturn

SpecExtrair == Init /\ [][NextExtrair]_vars

\* ------------------- main.analisar_pdfs and te.analisar_pdfs side by side
NextTe ==
    \/ DirectCall
    \/ GetClient
    \/ Upload
    \/ Analyze
    \/ Fill
    \/ Cleanup
    \/ Return
    \/ TeChamar
    \/ TeGetClient
    \/ TeUpload
    \/ TeAnalyze
    \/ TeCleanup
    \/ TeReturn

SpecTe == Init /\ [][NextTe]_vars

\* ------------------------------------------------------------- IAWorker
Progressed(v) == [sig |-> "progressed", val |-> v, text |-> <<>>]
FinishedOk(t) == [sig |-> "finished_ok", val |-> 0, text |-> t]
Failed(m) == [sig |-> "failed", val |-> 0, text |-> m]

Min(a, b) == IF a < b THEN a ELSE b

\* IAWorker(params): a worker that has not run yet.  Beside the fields of the
\* object (params, _cancel) and the locals of run (p, resp), a thread records
\* what it has emitted, whether it has called params.func, and where it was
\* when _cancel was first set.
NovoWorker(arqs) ==
    [wpc |-> "preamble", cancel |-> FALSE, p |-> PreStart, resp |-> <<>>,
     params |-> arqs, emitted |-> <<>>, invoked |-> FALSE,
     cancelled_in |-> "", n_at_cancel |-> 0]

\* QThread.isRunning()
isRunning(t) == t.wpc # "finished"

\* thread w emits signal s: it is queued for the window
Emit(w, t, s) ==
    /\ Len(inbox) < MaxInbox
    /\ threads' = [threads EXCEPT ![w] = [t EXCEPT !.emitted = Append(@, s)]]
    /\ inbox' = Append(inbox, s)

\* a flag that is never seen set
Cancelado_Nunca(t) == FALSE

\* "if self._cancel" at the four checkpoints of run
Cancelado(t) == t.cancel

\* the failed signal without the return that follows it
EmitCancelled_SemReturn(w) == Emit(w, threads[w], Failed(Cancelada))

\* "if self._cancel: self.failed.emit(...); return"
EmitCancelled(w) ==
    Emit(w, [threads[w] EXCEPT !.wpc = "exiting"], Failed(Cancelada))

\* one pass of the first loop: range(0, 15, 5)
PreambleTick(w) ==
    /\ threads[w].wpc = "preamble"
    /\ LET t == threads[w]
       IN  IF Cancelado(t)
           THEN EmitCancelled(w)
           ELSE Emit(w, [t EXCEPT !.p = t.p + Step,
                                 !.wpc = IF t.p + Step < PreStop
                                         THEN "preamble" ELSE "before_work"],
                     Progressed(t.p))
    /\ UNCHANGED <<te, wordVars, envVars, orchVars, worker, guiVars>>

\* the test before the call, and the call: resp = self.params.func(...), which
\* is chamar_agente_ia_pdf, that is analisar_pdfs(caminhos_pdfs, gerar_word=False).
\* One activation of analisar_pdfs is modelled, so the call waits for it.
BeforeWork(w) ==
    /\ threads[w].wpc = "before_work"
    /\ \/ /\ Cancelado(threads[w])
          /\ EmitCancelled(w)
          /\ UNCHANGED <<te, wordVars, envVars, orchVars>>
       \/ /\ ~Cancelado(threads[w])
          /\ apc = "idle"
          /\ Chamar(threads[w].params, FALSE)
          /\ threads' = [threads EXCEPT ![w].wpc = "work", ![w].invoked = TRUE]
          /\ UNCHANGED inbox
    /\ UNCHANGED <<worker, guiVars>>

\* a work call that hands its result over while the finally block is running
WorkReturn_Cedo(w) ==
    /\ threads[w].wpc = "work"
    /\ apc \in {"cleanup", "returned"}
    /\ apc' = "idle"
    /\ LET t == [threads[w] EXCEPT !.resp = ret]
       IN  IF Cancelado(t)
           THEN Emit(w, [t EXCEPT !.wpc = "exiting"], Failed(Cancelada))
           ELSE /\ threads' = [threads EXCEPT ![w] =
                                  [t EXCEPT !.wpc = "postamble", !.p = PostStart]]
                /\ UNCHANGED inbox
    /\ UNCHANGED <<te, wordVars, envVars, caminhos_arg, gerar_word, pdfs_validos, checked, file_ids,
                   di, saida, response, ret, calls, delete_failed, nextId, worker, guiVars>>

\* the call returns, and the test after it
WorkReturn(w) ==
    /\ threads[w].wpc = "work"
    /\ apc = "returned"
    /\ apc' = "idle"
    /\ LET t == [threads[w] EXCEPT !.resp = ret]
       IN  IF Cancelado(t)
           THEN Emit(w, [t EXCEPT !.wpc = "exiting"], Failed(Cancelada))
           ELSE /\ threads' = [threads EXCEPT ![w] =
                                  [t EXCEPT !.wpc = "postamble", !.p = PostStart]]
                /\ UNCHANGED inbox
    /\ UNCHANGED <<te, wordVars, envVars, caminhos_arg, gerar_word, pdfs_validos, checked, file_ids,
                   di, saida, response, ret, calls, delete_failed, nextId, worker, guiVars>>

\* an exception swallowed without a signal
WorkRaise_Mudo(w) ==
    /\ threads[w].wpc = "work"
    /\ apc = "raised"
    /\ apc' = "idle"
    /\ threads' = [threads EXCEPT ![w].wpc = "exiting"]
    /\ UNCHANGED <<te, wordVars, envVars, caminhos_arg, gerar_word, pdfs_validos, checked, file_ids,
                   di, saida, response, ret, calls, delete_failed, nextId, worker, inbox, guiVars>>

\* the call raises: "except Exception as exc" of run
WorkRaise(w) ==
    /\ threads[w].wpc = "work"
    /\ apc = "raised"
    /\ apc' = "idle"
    /\ Emit(w, [threads[w] EXCEPT !.wpc = "exiting"], Failed(ErroConsulta(ret)))
    /\ UNCHANGED <<te, wordVars, envVars, caminhos_arg, gerar_word, pdfs_validos, checked, file_ids,
                   di, saida, response, ret, calls, delete_failed, nextId, worker, guiVars>>

\* a second loop that stops one step short of its range
PostambleTick_Curto(w) ==
    /\ threads[w].wpc = "postamble"
    /\ LET t == threads[w]
       IN  IF Cancelado(t)
           THEN EmitCancelled(w)
           ELSE Emit(w, [t EXCEPT !.p = t.p + Step,
                                 !.wpc = IF t.p + Step < PostStop - Step
                                         THEN "postamble" ELSE "emit_ok"],
                     Progressed(Min(t.p, ProgressMax)))
    /\ UNCHANGED <<te, wordVars, envVars, orchVars, worker, guiVars>>

\* one pass of the second loop: range(45, 105, 5)
PostambleTick(w) ==
    /\ threads[w].wpc = "postamble"
    /\ LET t == threads[w]
       IN  IF Cancelado(t)
           THEN EmitCancelled(w)
           ELSE Emit(w, [t EXCEPT !.p = t.p + Step,
                                 !.wpc = IF t.p + Step < PostStop
                                         THEN "postamble" ELSE "emit_ok"],
                     Progressed(Min(t.p, ProgressMax)))
    /\ UNCHANGED <<te, wordVars, envVars, orchVars, worker, guiVars>>

\* self.finished_ok.emit(resp)
EmitOk(w) ==
    /\ threads[w].wpc = "emit_ok"
    /\ Emit(w, [threads[w] EXCEPT !.wpc = "exiting"], FinishedOk(threads[w].resp))
    /\ UNCHANGED <<te, wordVars, envVars, orchVars, worker, guiVars>>

\* run has returned: the thread ends and isRunning() becomes false
ThreadFinish(w) ==
    /\ threads[w].wpc = "exiting"
    /\ threads' = [threads EXCEPT ![w].wpc = "finished"]
    /\ UNCHANGED <<te, wordVars, envVars, orchVars, worker, inbox, guiVars>>

WorkerStep ==
    \E w \in DOMAIN threads :
        \/ PreambleTick(w)
        \/ BeforeWork(w)
        \/ WorkReturn(w)
        \/ WorkRaise(w)
        \/ PostambleTick(w)
        \/ EmitOk(w)
        \/ ThreadFinish(w)

\* ------------------------------------------------------------ MainWindow
\* the paths the user picks from: a PDF, a PDF that is gone by the time the job
\* runs, and a file that is no PDF
Selecionaveis == {"b.PDF", "gone.pdf", "notes.txt"}

\* set_files, reached from on_select_file and from the drop zone
set_files ==
    /\ \E arqs \in ListasDe(Selecionaveis, MaxSel) \ {<<>>} :
          LET validos == SelectSeq(arqs, LAMBDA p : lower(suffix(p)) = PdfSuffix)
          IN  arquivos' = IF validos = <<>> THEN arquivos ELSE validos
    /\ UNCHANGED <<te, wordVars, envVars, orchVars, workerVars, btn_run, btn_cancel, progress, out,
                   run_ignored>>

\* on_run without its first test
OnRunBusy_Never == FALSE

\* "if self._worker and self._worker.isRunning()" of on_run
OnRunBusy == worker # 0 /\ isRunning(threads[worker])

\* on_run, the slot of btn_run (a disabled button is not clicked).  The worker
\* replaced by a new one is garbage once its thread has ended.  A new worker is
\* started once the window has handled the signals queued so far, which bounds
\* the queue.
on_run ==
    /\ btn_run
    /\ \/ /\ OnRunBusy
          /\ run_ignored' = TRUE
          /\ UNCHANGED <<workerVars, arquivos, btn_run, btn_cancel, progress, out>>
       \/ /\ ~OnRunBusy
          /\ arquivos = <<>>
          /\ UNCHANGED <<workerVars, guiVars>>
       \/ /\ ~OnRunBusy
          /\ arquivos # <<>>
          /\ inbox = <<>>
          /\ threads' = Append(SelectSeq(threads, isRunning), NovoWorker(arquivos))
          /\ worker' = Len(threads')
          /\ btn_run' = FALSE
          /\ btn_cancel' = TRUE
          /\ progress' = 0
          /\ out' = <<>>
          /\ run_ignored' = FALSE
          /\ UNCHANGED <<inbox, arquivos>>
    /\ UNCHANGED <<te, wordVars, envVars, orchVars>>

\* on_cancel, the slot of btn_cancel, and IAWorker.cancel
on_cancel ==
    /\ btn_cancel
    /\ IF worker # 0 /\ isRunning(threads[worker])
       THEN LET t == threads[worker]
            IN  threads' = [threads EXCEPT ![worker] =
                    IF t.cancel THEN t
                    ELSE [t EXCEPT !.cancel = TRUE, !.cancelled_in = t.wpc,
                                   !.n_at_cancel = Len(t.emitted)]]
       ELSE UNCHANGED threads
    /\ UNCHANGED <<te, wordVars, envVars, orchVars, worker, inbox, guiVars>>

\* on_clear
on_clear ==
    /\ out' = <<>>
    /\ arquivos' = <<>>
    /\ progress' = 0
    /\ btn_run' = TRUE
    /\ btn_cancel' = FALSE
    /\ UNCHANGED <<te, wordVars, envVars, orchVars, workerVars, run_ignored>>

\* the window runs the slot of the oldest queued signal:
\* progress.setValue, _on_finished_ok or _on_failed
Deliver ==
    /\ inbox # <<>>
    /\ inbox' = Tail(inbox)
    /\ LET s == Head(inbox)
       IN  CASE s.sig = "progressed" ->
                 /\ progress' = s.val
                 /\ UNCHANGED <<btn_run, btn_cancel, out>>
             [] s.sig = "finished_ok" ->
                 /\ btn_run' = TRUE
                 /\ btn_cancel' = FALSE
                 /\ progress' = ProgressMax
                 /\ out' = s.text
             [] OTHER ->
                 /\ btn_run' = TRUE
                 /\ btn_cancel' = FALSE
                 /\ progress' = 0
                 /\ UNCHANGED out
    /\ UNCHANGED <<te, wordVars, envVars, orchVars, threads, worker, arquivos, run_ignored>>

Next ==
    \/ set_files
    \/ on_run
    \/ on_cancel
    \/ on_clear
    \/ Deliver
    \/ WorkerStep
    \/ GetClient
    \/ Upload
    \/ Analyze
    \/ Cleanup
    \/ Return

Spec == Init /\ [][Next]_vars

\* the steps of the window, the worker and the call, with a user who selects
\* the PDF that exists, any number of times, or the one that is gone, and an
\* agent whose answers, when it answers, are all the text " ok\n"
NextLive ==
    \/ set_files /\ arquivos' \in ListasDe({"b.PDF"}, MaxSel) \cup {<<"gone.pdf">>}
    \/ on_run
    \/ on_cancel
    \/ on_clear
    \/ Deliver
    \/ WorkerStep
    \/ GetClient
    \/ Upload
    \/ Analyze /\ response' \in {response, <<Str(<<" ", "o", "k", "\n">>)>>}
    \/ Cleanup
    \/ Return

\* the scheduling the job relies on: a started QThread keeps running, the call
\* of analisar_pdfs it makes goes on to its return or raise, and the event
\* loop of the window keeps handling the queued signals
SpecLive ==
    /\ Init
    /\ [][NextLive]_vars
    /\ WF_vars(WorkerStep)
    /\ WF_vars(GetClient \/ Upload \/ Analyze \/ Cleanup \/ Return)
    /\ WF_vars(Deliver)

\* ------------------------------------------------------ reading the call log
IsPrefix(a, b) == Len(a) <= Len(b) /\ a = SubSeq(b, 1, Len(a))

CallsOf(op) == SelectSeq(calls, LAMBDA c : c.op = op)

\* the identifiers of the uploads that succeeded, in the order of the calls
UploadedIds ==
    LET ups == SelectSeq(calls, LAMBDA c : c.op = "upload" /\ c.ok)
    IN  [i \in 1..Len(ups) |-> ups[i].id]

\* the paths of the upload calls made, in the order of the calls
UploadPaths == LET ups == CallsOf("upload") IN [i \in 1..Len(ups) |-> ups[i].path]

\* the identifiers of the delete calls made, in the order of the calls
DeletedIds == LET ds == CallsOf("delete") IN [i \in 1..Len(ds) |-> ds[i].id]

\* analisar_pdfs is over: it has returned or raised
Over == apc \in {"returned", "raised"}

\* what the claims call a path that fails validation
Offending(p) ==
    \/ p \in {"gone.pdf", "dir.pdf"}
    \/ suffix(p) \notin {<<".", "p", "d", "f">>, <<".", "P", "D", "F">>}

\* the paths analisar_pdfs considers: at most the first five of its argument
Considered ==
    [i \in 1..(IF Len(caminhos_arg) < 5 THEN Len(caminhos_arg) ELSE 5) |-> caminhos_arg[i]]

AnyOffending == \E i \in DOMAIN Considered : Offending(Considered[i])

FirstOffending ==
    CHOOSE i \in DOMAIN Considered :
        Offending(Considered[i]) /\ \A j \in 1..(i - 1) : ~Offending(Considered[j])

\* ----------------------------------------------------------------- claims
\* C1 (cleanup-always): at every moment the delete calls made are for a prefix
\* of the identifiers of the successful uploads, in upload order, and once
\* analisar_pdfs is over, whatever step failed or succeeded, the delete calls
\* are for exactly those identifiers, each once (the identifiers are distinct).
C1_CleanupAlways ==
    /\ IsPrefix(DeletedIds, UploadedIds)
    /\ \A i, j \in DOMAIN UploadedIds : i # j => UploadedIds[i] # UploadedIds[j]
    /\ Over => DeletedIds = UploadedIds

\* three uploads succeeded, the analyze call failed, three deletes were issued
C1_Witness ==
    /\ apc = "returned"
    /\ Len(UploadedIds) = 3
    /\ \E i \in DOMAIN calls : calls[i].op = "analyze" /\ ~calls[i].ok
    /\ Len(DeletedIds) = 3
    /\ ret = ErroConsulta(<<"analyze">>)

\* C2 (validation fails fast): once analisar_pdfs has been called with an empty
\* list, or with an offending path among the (at most five) considered ones, it
\* has returned the error (for a path: the one naming the first offending
\* path) and no upload, analyze or delete call is ever made, and no client is
\* obtained.
C2_ValidationFailsFast ==
    (apc # "idle" /\ (caminhos_arg = <<>> \/ AnyOffending)) =>
        /\ apc = "returned"
        /\ calls = <<>>
        /\ client = FALSE /\ api_key = "unread"
        /\ IF caminhos_arg = <<>> THEN ret = ErroNenhumPdf
           ELSE LET p == Considered[FirstOffending]
                IN  /\ Len(ret) = 2 /\ ret[2] = p
                    /\ ret[1] = (IF p = "notes.txt"
                                 THEN "Erro: arquivo nao e PDF: "
                                 ELSE "Erro: arquivo nao encontrado: ")

\* a valid path followed by a path that does not exist: the error names it
C2_Witness ==
    /\ apc = "returned"
    /\ caminhos_arg = <<"a.pdf", "gone.pdf", "notes.txt">>
    /\ ret = <<"Erro: arquivo nao encontrado: ", "gone.pdf">>
    /\ calls = <<>>

\* C9 (truncation): when more than five paths are supplied, the paths validated
\* and the paths uploaded are prefixes of the first five, in their order; when
\* the first five are valid all five are validated and the call does not end
\* in a validation error, whatever the later paths are; and when the analyze
\* call is made exactly the first five have been uploaded, in their order.
C9_Truncation ==
    (apc # "idle" /\ Len(caminhos_arg) > 5) =>
        /\ IsPrefix(checked, Considered)
        /\ IsPrefix(UploadPaths, Considered)
        /\ ~AnyOffending =>
              /\ checked = Considered
              /\ ~(apc = "returned" /\ calls = <<>> /\ client = FALSE)
        /\ CallsOf("analyze") # <<>> =>
              /\ UploadPaths = Considered
              /\ Len(UploadedIds) = 5

\* six paths, the sixth one invalid: five uploads in the order given, success
C9_Witness ==
    /\ apc = "returned"
    /\ caminhos_arg = <<"a.pdf", "b.PDF", "b.PDF", "a.pdf", "b.PDF", "gone.pdf">>
    /\ UploadPaths = <<"a.pdf", "b.PDF", "b.PDF", "a.pdf", "b.PDF">>
    /\ Len(UploadedIds) = 5
    /\ ret = <<"o", "k">>

\* C10 (sequential, order-preserving remote interaction): the upload calls are
\* made in input order; at most one analyze call is made, it comes after every
\* upload call and carries the identifiers of all the successful uploads in
\* upload order; no upload or analyze call comes after a delete call; and when
\* analisar_pdfs is over after valid input, the analyze call was made exactly
\* once if every considered path was uploaded and not at all otherwise.
C10_SequentialOrder ==
    /\ IsPrefix(UploadPaths, Considered)
    /\ Len(CallsOf("analyze")) <= 1
    /\ \A i, j \in DOMAIN calls :
          i < j =>
            /\ ~(calls[i].op = "analyze" /\ calls[j].op = "upload")
            /\ ~(calls[i].op = "delete" /\ calls[j].op # "delete")
    /\ \A i \in DOMAIN calls :
          calls[i].op = "analyze" =>
            /\ calls[i].ids = UploadedIds
            /\ Len(UploadedIds) = Len(Considered)
    /\ (Over /\ caminhos_arg # <<>> /\ ~AnyOffending) =>
          Len(CallsOf("analyze")) =
              (IF Len(UploadedIds) = Len(Considered) THEN 1 ELSE 0)

\* two different files uploaded in order, analysed together, then deleted
C10_Witness ==
    /\ apc = "returned"
    /\ caminhos_arg = <<"b.PDF", "a.pdf">>
    /\ Len(calls) = 5
    /\ calls[1].path = "b.PDF" /\ calls[2].path = "a.pdf"
    /\ calls[3].op = "analyze" /\ calls[3].ok /\ calls[3].ids = <<calls[1].id, calls[2].id>>
    /\ calls[4].op = "delete" /\ calls[5].op = "delete"
    /\ calls[1].id # calls[2].id


\* ------------------------------------------------------ reading the threads
Ended(t) == t.wpc \in {"exiting", "finished"}

Last(q) == q[Len(q)]

\* the terminal notifications (finished_ok, failed) a thread has emitted
Terminals(t) == SelectSeq(t.emitted, LAMBDA s : s.sig # "progressed")

\* the texts analisar_pdfs returns for a validation error or a failed remote call
IsErrorText(r) ==
    /\ r # <<>>
    /\ r[1] \in {"Erro: nenhum PDF informado.", "Erro: arquivo nao encontrado: ",
                 "Erro: arquivo nao e PDF: ", "Erro ao consultar a IA: "}

\* C3 (errors fail the job), as claimed: a job whose work call came back with a
\* validation error or a remote-call error emits no postamble progress and no
\* finished_ok, and ends with the failed notification carrying the message.
C3_ErrorsFailTheJob ==
    \A w \in DOMAIN threads :
        LET t == threads[w]
        IN  IsErrorText(t.resp) =>
              /\ \A i \in DOMAIN t.emitted :
                    /\ t.emitted[i].sig # "finished_ok"
                    /\ ~(t.emitted[i].sig = "progressed" /\ t.emitted[i].val >= PostStart)
              /\ Ended(t) => Last(t.emitted).sig = "failed"

\* a step that creates a worker
Created ==
    \/ Len(threads') > Len(threads)
    \/ \E w \in DOMAIN threads \cap DOMAIN threads' :
          threads[w].wpc = "finished" /\ threads'[w].wpc # "finished"

\* C4 (one job at a time): at most one worker thread is alive and running, at
\* most one is inside the work call, and a worker is created only by a step
\* taken while no worker is running, with the Run button enabled and a file
\* selected: a run request made while a worker runs creates nothing, then or
\* later.
C4_OneJobAtATime ==
    /\ [](/\ Len(threads) <= 1
          /\ Cardinality({w \in DOMAIN threads : isRunning(threads[w])}) <= 1)
    /\ [][Created =>
            /\ \A w \in DOMAIN threads : ~isRunning(threads[w])
            /\ btn_run /\ arquivos # <<>>
            /\ Len(threads') = 1]_vars

\* a run request was made, and ignored, while the worker was in its work call
C4_Witness ==
    /\ run_ignored
    /\ Len(threads) = 1
    /\ threads[1].wpc = "work"
    /\ apc = "upload"

\* C5 (cancel during the work call): when _cancel was first set while the work
\* call was in flight and the call has returned, the call ran to its end (its
\* deletes match its uploads and its result is kept), and the worker has
\* emitted since the cancel request exactly one notification, the failed
\* signal "Execucao cancelada.", so no progress and no finished_ok, and its
\* run is over.
C5_CancelInFlight ==
    \A w \in DOMAIN threads :
        LET t == threads[w]
        IN  (t.cancelled_in = "work" /\ t.resp # <<>>) =>
              /\ Ended(t)
              /\ Len(t.emitted) = t.n_at_cancel + 1
              /\ Last(t.emitted) = Failed(Cancelada)
              /\ \A i \in DOMAIN t.emitted : t.emitted[i].sig # "finished_ok"
              /\ apc = "idle" /\ t.resp = ret
              /\ DeletedIds = UploadedIds

\* cancelled while the upload was pending: the file was still uploaded,
\* analysed and deleted, and the job ended as cancelled
C5_Witness ==
    /\ Len(threads) = 1
    /\ threads[1].cancelled_in = "work"
    /\ threads[1].wpc = "finished"
    /\ threads[1].resp = <<"o", "k">>
    /\ Len(calls) = 3 /\ calls[3].op = "delete"
    /\ Last(threads[1].emitted) = Failed(Cancelada)

\* C6 (checkpoints): after _cancel is set the worker emits no further progress
\* notification, in the preamble, around the work call and in the postamble;
\* and when it is set in the preamble or at the checkpoint before the work
\* call, the work function is never called and the one notification that
\* follows is the failed signal "Execucao cancelada.", which ends the job.
C6_Checkpoints ==
    \A w \in DOMAIN threads :
        LET t == threads[w]
        IN  /\ t.cancel =>
                  \A i \in DOMAIN t.emitted :
                      i > t.n_at_cancel => t.emitted[i].sig # "progressed"
            /\ t.cancelled_in \in {"preamble", "before_work"} =>
                  /\ ~t.invoked
                  /\ t.wpc \in {"preamble", "before_work", "exiting", "finished"}
                  /\ Len(t.emitted) <= t.n_at_cancel + 1
                  /\ Ended(t) <=> Len(t.emitted) = t.n_at_cancel + 1
                  /\ Ended(t) => Last(t.emitted) = Failed(Cancelada)

\* cancelled at the checkpoint before the work call: no call, cancelled outcome
C6_Witness ==
    /\ Len(threads) = 1
    /\ threads[1].cancelled_in = "before_work"
    /\ threads[1].wpc = "finished"
    /\ ~threads[1].invoked
    /\ Len(threads[1].emitted) = 4
    /\ Last(threads[1].emitted) = Failed(Cancelada)

\* C7 (ordering): within a job the progress values never decrease, and a
\* terminal notification is the last notification: every notification before
\* the last one is a progress notification.
C7_Ordering ==
    \A w \in DOMAIN threads :
        LET e == threads[w].emitted
        IN  /\ \A i, j \in DOMAIN e :
                  (i < j /\ e[i].sig = "progressed" /\ e[j].sig = "progressed")
                      => e[i].val <= e[j].val
            /\ \A i \in DOMAIN e : i < Len(e) => e[i].sig = "progressed"

\* a cancelled job that got into its postamble: progress 0..50, then failed
C7_Witness ==
    /\ Len(threads) = 1
    /\ threads[1].cancelled_in = "postamble"
    /\ threads[1].wpc = "finished"
    /\ Len(threads[1].emitted) = 6
    /\ threads[1].emitted[3].val = 10 /\ threads[1].emitted[5].val = 50
    /\ Last(threads[1].emitted).sig = "failed"

\* C8 (exactly one terminal notification): a worker never emits more than one
\* terminal notification, and once its run is over it has emitted exactly one.
C8_OneTerminal ==
    \A w \in DOMAIN threads :
        LET t == threads[w]
        IN  /\ Len(Terminals(t)) <= 1
            /\ Ended(t) => Len(Terminals(t)) = 1

\* the work call raised after a cancel request: one failed signal, the error
C8_Witness ==
    /\ Len(threads) = 1
    /\ threads[1].cancelled_in = "work"
    /\ threads[1].wpc = "finished"
    /\ Terminals(threads[1]) = <<Failed(ErroConsulta(SemChave))>>

\* ------------------------------------------------- claims on the fill step
\* the text of an answer as analisar_pdfs returns it without the fill: the
\* trimmed body, or the sentinel for a body that is missing or blank
TextoDaIA(r) ==
    LET t == IF r.is_none THEN <<>> ELSE r.text
        a == {i \in DOMAIN t : ~IsSpace(t[i])}
    IN  IF a = {} THEN SemConteudo
        ELSE LET lo == CHOOSE i \in a : \A j \in a : i <= j
                 hi == CHOOSE i \in a : \A j \in a : j <= i
             IN  SubSeq(t, lo, hi)

\* the bodies of the model that are a JSON object, bare or fenced
ObjetosDaIA == {<<"{", "}">>, Fence \o <<"\n", "{", "}", "\n">> \o Fence}

\* C11 (a fill failure keeps the analysis text): once the fill step of a call
\* with gerar_word is over, the value to return is the text of the answer
\* followed by one note: the [AVISO] note when the body is no JSON object
\* (not parsable, or another JSON value), the [AVISO] note or the output-path
\* note when it is one (the template may be missing and the save may fail);
\* and when the call is over every uploaded artifact has been deleted.
C11_FillKeepsText ==
    (gerar_word /\ response # <<>> /\ apc \in {"cleanup", "returned"}) =>
        LET txt == TextoDaIA(response[1])
            n == Len(txt)
        IN  /\ Len(ret) = n + 2
            /\ SubSeq(ret, 1, n) = txt
            /\ ret[n + 1] \in {Aviso("")[1], WordGerado("")[1]}
            /\ (response[1].is_none \/ response[1].text \notin ObjetosDaIA)
                  => ret[n + 1] = Aviso("")[1]
            /\ apc = "returned" => DeletedIds = UploadedIds

\* the agent answered with a JSON array: its text comes back with the note,
\* and the two uploads were deleted
C11_Witness ==
    /\ apc = "returned"
    /\ gerar_word
    /\ response = <<[is_none |-> FALSE, text |-> <<"[", "]">>]>>
    /\ ret = <<"[", "]">> \o Aviso("JSON nao e um objeto/dicionario.")
    /\ Len(UploadedIds) = 2
    /\ DeletedIds = UploadedIds

\* --------------------------------------- claims on preencher_modelo_word
\* t without the white space at its two ends
Aparar(t) ==
    LET a == {i \in DOMAIN t : t[i] \notin {" ", "\n", "\t", "\r"}}
    IN  IF a = {} THEN <<>>
        ELSE SubSeq(t, CHOOSE i \in a : \A j \in a : i <= j,
                       CHOOSE i \in a : \A j \in a : j <= i)

\* the record dados_preparados of the call has been built
DpPronto ==
    \/ pmw.pc \in {"paragraphs", "returned"}
    \/ pmw.pc = "raised" /\ pmw.exc = "save"

\* the value of the record for the key written between two braces
ValorDe(dp, chave) ==
    IF \E k \in DOMAIN dp : chave = <<k>> THEN dp[chave[1]] ELSE <<>>

\* t starts with a span: a "{" with a "}" somewhere after it
AbreSpan(t) == t # <<>> /\ Head(t) = "{" /\ \E k \in 2..Len(t) : t[k] = "}"

\* the index of the "}" that closes the span t starts with
FechaSpan(t) == CHOOSE k \in 2..Len(t) : t[k] = "}" /\ \A h \in 2..(k - 1) : t[h] # "}"

RECURSIVE Referencia(_, _)
\* one pass over t from the left: every span gives way to the value of its
\* key, every other character stays, and what was put in is not read again
Referencia(t, dp) ==
    IF t = <<>> THEN <<>>
    ELSE IF AbreSpan(t)
    THEN ValorDe(dp, SubSeq(t, 2, FechaSpan(t) - 1))
         \o Referencia(SubSeq(t, FechaSpan(t) + 1, Len(t)), dp)
    ELSE <<Head(t)>> \o Referencia(Tail(t), dp)

RECURSIVE ChavesDe(_)
\* the keys of the spans of t, from the left
ChavesDe(t) ==
    IF t = <<>> THEN <<>>
    ELSE IF AbreSpan(t)
    THEN <<SubSeq(t, 2, FechaSpan(t) - 1)>> \o ChavesDe(SubSeq(t, FechaSpan(t) + 1, Len(t)))
    ELSE ChavesDe(Tail(t))

\* C12 (substitution correctness): for every paragraph processed, the text of
\* the paragraph afterwards, and the concatenation of the segments whenever
\* processar_paragrafo built any, is the text of the single pass from the left
\* that replaces each span by the value of its key in the record (the empty
\* string for an unknown key) and keeps every other character; values are not
\* scanned again.
C12_Substituicao ==
    \A k \in DOMAIN pmw.pars :
        LET r == pmw.pars[k]
            ref == Referencia(pmw.doc[k], pmw.dp)
        IN  /\ Concat(r.runs) = ref
            /\ r.segmentos # <<>> => Concat(r.segmentos) = ref

\* a value that is itself a placeholder is put in and left alone, and the
\* unterminated brace after it stays
C12_Witness ==
    /\ pmw.pc = "returned"
    /\ pmw.doc = << <<"{", "CHAVE", "}", "{">> >>
    /\ "CHAVE" \in DOMAIN pmw.dp
    /\ pmw.dp["CHAVE"] = <<"{", "CHAVE", "}">>
    /\ Concat(pmw.pars[1].runs) = <<"{", "CHAVE", "}", "{">>
    /\ Len(pmw.pars[1].segmentos) = 2

\* the value of the agent for VINCULO_COM_TRABALHO says yes
ValeSim(dados) ==
    /\ "VINCULO_COM_TRABALHO" \in DOMAIN dados
    /\ ~dados["VINCULO_COM_TRABALHO"].is_none
    /\ Aparar(dados["VINCULO_COM_TRABALHO"].text)
          \in {<<a, b, c>> : a \in {"s", "S"}, b \in {"i", "I"}, c \in {"m", "M"}}

\* C13 (the VINCULO_COM_TRABALHO rule): in the record built for the call the
\* key resolves to the fixed clause when the agent's value, trimmed and
\* uppercased, is SIM, and to the empty string for any other value and when
\* the key is absent, null or blank; and in every paragraph processed, each
\* span with that key was replaced by that same text.
C13_RegraVinculo ==
    DpPronto =>
        LET esperado == IF ValeSim(pmw.dados) THEN Clausula ELSE <<>>
        IN  /\ Get(pmw.dp, <<"VINCULO_COM_TRABALHO">>) = esperado
            /\ \A k \in DOMAIN pmw.pars :
                  LET chaves == ChavesDe(pmw.doc[k])
                      vals == SelectSeq(pmw.pars[k].segmentos, LAMBDA g : g.tipo = "valor")
                  IN  /\ chaves # <<>> => Len(vals) = Len(chaves)
                      /\ \A i \in DOMAIN chaves :
                            chaves[i] = <<"VINCULO_COM_TRABALHO">>
                               => vals[i].texto = esperado

\* " Sim" with white space around it: both placeholders of the first
\* paragraph became the clause
C13_Witness ==
    /\ pmw.pc = "returned"
    /\ "VINCULO_COM_TRABALHO" \in DOMAIN pmw.dados
    /\ pmw.dados["VINCULO_COM_TRABALHO"] = Str(<<" ", "S", "i", "m", "\n">>)
    /\ Len(pmw.doc) = 2
    /\ Concat(pmw.pars[1].runs) = Clausula \o <<" ">> \o Clausula

\* key k of the agent's object has a value that is neither null nor blank
TemValor(dados, k) == ~dados[k].is_none /\ Aparar(dados[k].text) # <<>>

Permitidos == Alnum \cup {" ", "_", "-"}

\* the part of a saved file name between "Pet_inicial_" and ".docx"
NomeEm(name) == SubSeq(name, Len(PetInicial) + 2, Len(name) - 1)

\* the NOME_CLIENTE of the call is absent, null, blank, or has no character
\* that survives the sanitizing other than spaces
SemNome(dados) ==
    \/ "NOME_CLIENTE" \notin DOMAIN dados
    \/ dados["NOME_CLIENTE"].is_none
    \/ \A i \in DOMAIN dados["NOME_CLIENTE"].text :
          dados["NOME_CLIENTE"].text[i] \notin (Permitidos \ {" "})

\* C16 (output file name): when preencher_modelo_word returns, the path it
\* returns is the one it saved to, in the directory of the template, named
\* "Pet_inicial_<name>.docx"; <name> holds only alphanumerics, space,
\* underscore and hyphen, has no white space at its ends and is not empty; it
\* is "Pet_inicial" when NOME_CLIENTE is absent, blank or sanitizes to the
\* empty string, and otherwise the permitted characters of NOME_CLIENTE,
\* trimmed.
C16_NomeDoArquivo ==
    pmw.pc = "returned" =>
        LET name == pmw.saida_path.name
            nome == NomeEm(name)
        IN  /\ pmw.saida_path.dir = pmw.modelo.dir
            /\ Len(name) >= Len(PetInicial) + 3
            /\ SubSeq(name, 1, Len(PetInicial) + 1) = PetInicial \o <<"_">>
            /\ name[Len(name)] = ".docx"
            /\ nome # <<>>
            /\ \A i \in DOMAIN nome : nome[i] \in Permitidos
            /\ nome[1] # " " /\ nome[Len(nome)] # " "
            /\ IF SemNome(pmw.dados) THEN nome = PetInicial
               ELSE nome = Aparar(SelectSeq(pmw.dados["NOME_CLIENTE"].text,
                                            LAMBDA c : c \in Permitidos))

\* " J/o " becomes Pet_inicial_Jo.docx beside the template
C16_Witness ==
    /\ pmw.pc = "returned"
    /\ pmw.modelo = MODELO_WORD
    /\ "NOME_CLIENTE" \in DOMAIN pmw.dados
    /\ pmw.dados["NOME_CLIENTE"] = Str(<<" ", "J", "/", "o", " ">>)
    /\ pmw.saida_path = Caminho("app", PetInicial \o <<"_", "J", "o", ".docx">>)

\* C17 (the template is never overwritten), as claimed: whenever
\* preencher_modelo_word has saved, or tried to save, the path it saved to
\* differs from the path of the template.
C17_TemplateKept ==
    (pmw.pc = "returned" \/ (pmw.pc = "raised" /\ pmw.exc = "save"))
        => pmw.saida_path # pmw.modelo

\* ------------------------------------------ claims on _extrair_json_puro
\* t begins with a fence marker
ComecaComCerca(t) == Len(t) >= 3 /\ t[1] = Crase /\ t[2] = Crase /\ t[3] = Crase

RECURSIVE LinhasRef(_, _)
\* the lines of t read character by character, cur being the line under way:
\* a line ends at "\n", at "\r" and at "\r\n"
LinhasRef(t, cur) ==
    IF t = <<>> THEN (IF cur = <<>> THEN <<>> ELSE <<cur>>)
    ELSE IF Head(t) = "\r" /\ Len(t) >= 2 /\ t[2] = "\n"
    THEN <<cur>> \o LinhasRef(SubSeq(t, 3, Len(t)), <<>>)
    ELSE IF Head(t) \in {"\n", "\r"}
    THEN <<cur>> \o LinhasRef(Tail(t), <<>>)
    ELSE LinhasRef(Tail(t), Append(cur, Head(t)))

\* the lines left of a fenced text: without the first line and, when the last
\* of the others begins with a fence marker, without that one too
SemCercas(ls) ==
    LET r == Tail(ls)
    IN  IF r # <<>> /\ ComecaComCerca(r[Len(r)]) THEN SubSeq(r, 1, Len(r) - 1) ELSE r

\* JSON objects as lists of lines, and the annotations of an opening fence
Objetos == { << <<"{", "}">> >>, << <<"{">>, <<"}">> >> }
Anotacoes == {<<>>, <<"j", "s", "o", "n">>}

\* the object J inside a fence, with the line break sep throughout
Cercado(J, sep, tag) == JoinWith(<<Fence \o tag>> \o J \o <<Fence>>, sep)

\* what _extrair_json_puro returns for a text, line by line: the trimmed text
\* when it does not begin with a fence marker, else the lines left, joined
\* with "\n" and trimmed
ExtracaoDescrita ==
    LET t0 == Aparar(ejp.texto)
    IN  IF ComecaComCerca(t0)
        THEN ejp.res = Aparar(JoinWith(SemCercas(LinhasRef(t0, <<>>)), <<"\n">>))
        ELSE ejp.res = t0

\* C15 as claimed: beside the description of the result, a fenced JSON object
\* and the same object without fence yield the same extracted text.
C15_ExtracaoAsClaimed ==
    ejp.pc = "returned" =>
        /\ ExtracaoDescrita
        /\ \A J \in Objetos, sep \in Seps, tag \in Anotacoes :
              ejp.texto = Cercado(J, sep, tag)
                 => ejp.res = extrair_json_puro(JoinWith(J, sep))

\* C15 (JSON extraction), amended: the result is the trimmed text when it does
\* not begin with a fence marker, and otherwise the lines left after removing
\* the first line and a last line that begins with a fence marker, joined with
\* "\n" and trimmed; a fenced JSON object yields the text extracted from the
\* same object without fence written with "\n" line breaks, whatever line
\* breaks the fenced text has.
C15_Extracao ==
    ejp.pc = "returned" =>
        /\ ExtracaoDescrita
        /\ \A J \in Objetos, sep \in Seps, tag \in Anotacoes :
              ejp.texto = Cercado(J, sep, tag)
                 => ejp.res = extrair_json_puro(JoinWith(J, <<"\n">>))

\* a fenced two-line object with "\r\n" line breaks comes back with "\n"
C15_Witness ==
    /\ ejp.pc = "returned"
    /\ ejp.texto = Cercado(<< <<"{">>, <<"}">> >>, <<"\r", "\n">>, <<"j", "s", "o", "n">>)
    /\ ejp.res = <<"{", "\n", "}">>

\* --------------------------------- claims on the answer and on the cleanup
\* an answer whose body is missing, empty or white space only
Vazia(r) == r.is_none \/ \A i \in DOMAIN r.text : r.text[i] \in {" ", "\n", "\t", "\r"}

\* C18 (an empty answer is not a failure): once the analyze call has answered
\* with a missing, empty or blank body, the text of the analysis is the fixed
\* sentinel: without the fill it is the value returned, with the fill the
\* value returned begins with it; no error is returned, and when the call is
\* over every uploaded artifact has been deleted.
C18_SemConteudo ==
    (response # <<>> /\ Vazia(response[1])) =>
        /\ apc \in {"fill", "cleanup", "returned"}
        /\ IsPrefix(SemConteudo, saida)
        /\ \A i \in DOMAIN calls : calls[i].op = "analyze" => calls[i].ok
        /\ apc \in {"cleanup", "returned"} =>
              /\ IsPrefix(SemConteudo, ret)
              /\ ~gerar_word => ret = SemConteudo
        /\ apc = "returned" => DeletedIds = UploadedIds

\* the answer had no body: the sentinel is returned and the upload deleted
C18_Witness ==
    /\ apc = "returned"
    /\ ~gerar_word
    /\ response = <<[is_none |-> TRUE, text |-> <<>>]>>
    /\ ret = SemConteudo
    /\ Len(UploadedIds) = 1
    /\ DeletedIds = UploadedIds

\* C19 (analisar_pdfs never raises), as claimed: no call of analisar_pdfs ends
\* with an exception, and one that has returned has returned a text.
C19_NeverRaises ==
    /\ apc # "raised"
    /\ apc = "returned" => ret # <<>>

\* C20 (deletion failures are swallowed): the deletes are attempted in upload
\* order and, also after one of them has failed, for every uploaded artifact
\* by the time the call is over, which it is by returning; and no step of the
\* cleanup changes the value to return, whether a delete fails or not.
C20_DeleteFailures ==
    /\ [](delete_failed =>
            /\ apc \in {"cleanup", "returned"}
            /\ IsPrefix(DeletedIds, UploadedIds)
            /\ apc = "returned" => DeletedIds = UploadedIds)
    /\ [][apc = "cleanup" =>
            /\ ret' = ret
            /\ apc' \in {"cleanup", "returned"}
            /\ apc' = "cleanup" =>
                  /\ di <= Len(file_ids)
                  /\ calls' = Append(calls, DeleteCall(file_ids[di]))
                  /\ di' = di + 1]_vars

\* three uploads, a delete that failed, three deletes all the same, and the
\* analysis returned
C20_Witness ==
    /\ apc = "returned"
    /\ delete_failed
    /\ Len(UploadedIds) = 3
    /\ DeletedIds = UploadedIds
    /\ ret = <<"o", "k">>

\* --------------------------------------------- claims on the job as a whole
\* C21 (cleanup precedes completion): while the work call of a job is in
\* flight the worker has emitted no terminal notification, and once a worker
\* that made the work call has emitted finished_ok or failed, the call is over
\* and a delete was issued for every uploaded artifact, in upload order; this
\* holds as well when the job was cancelled while the call was in flight.
C21_CleanupBeforeTerminal ==
    \A w \in DOMAIN threads :
        LET t == threads[w]
        IN  /\ t.wpc = "work" => Terminals(t) = <<>>
            /\ (t.invoked /\ Terminals(t) # <<>>) =>
                  /\ apc = "idle"
                  /\ DeletedIds = UploadedIds
                  /\ \A i \in DOMAIN calls :
                        calls[i].op = "delete" => i > Len(calls) - Len(UploadedIds)

\* cancelled while the analyze call was pending: the upload was deleted before
\* the failed notification was emitted
C21_Witness ==
    /\ Len(threads) = 1
    /\ threads[1].cancelled_in = "work"
    /\ threads[1].n_at_cancel = 3
    /\ Terminals(threads[1]) = <<Failed(Cancelada)>>
    /\ Len(calls) = 3
    /\ calls[2].op = "analyze" /\ ~calls[2].ok
    /\ calls[3] = DeleteCall(calls[1].id)

\* ------------------------------------------ claims on the paragraph rewriter
\* the positions of the "{" of a text that no "}" follows
Abertos(t) == {u \in DOMAIN t : t[u] = "{" /\ \A j \in (u + 1)..Len(t) : t[j] # "}"}

\* the text from the first unterminated "{" to the end
Resto(t) ==
    LET u == CHOOSE x \in Abertos(t) : \A y \in Abertos(t) : x <= y
    IN  SubSeq(t, u, Len(t))

\* s ends with r
IsSuffix(r, s) == Len(r) <= Len(s) /\ r = SubSeq(s, Len(s) - Len(r) + 1, Len(s))

\* C22 (unterminated placeholder): for a paragraph with a "{" that no "}"
\* follows, the text from the first such "{" to the end stands unchanged at the
\* end of the rewritten paragraph; when the scanner ran, that remainder is its
\* last segment, a fixed one, emitted whole as the last run without a font of
\* its own, so no key inside it is resolved; when the paragraph has no "}" at
\* all it is left as it was.
C22_Unterminated ==
    \A k \in DOMAIN pmw.pars :
        LET t == pmw.doc[k]
            r == pmw.pars[k]
        IN  Abertos(t) # {} =>
              /\ IsSuffix(Resto(t), Concat(r.runs))
              /\ IF r.segmentos = <<>>
                 THEN /\ \A i \in DOMAIN t : t[i] # "}"
                      /\ Concat(r.runs) = t
                 ELSE /\ Last(r.segmentos) = [tipo |-> "fixo", texto |-> Resto(t)]
                      /\ Last(r.runs).tipo = "fixo"
                      /\ Last(r.runs).texto = Resto(t)
                      /\ \A i \in 1..(Len(r.segmentos) - 1) :
                            \A c \in DOMAIN r.segmentos[i].texto :
                                r.segmentos[i].tipo = "fixo"
                                    => r.segmentos[i].texto[c] # "{"

\* "}{CHAVE" with a value for CHAVE: the remainder "{CHAVE" is one fixed
\* segment and the key is not resolved
C22_Witness ==
    /\ pmw.pc = "returned"
    /\ pmw.doc = << <<"}", "{", "CHAVE">> >>
    /\ "CHAVE" \in DOMAIN pmw.dp /\ pmw.dp["CHAVE"] = <<"v">>
    /\ pmw.pars[1].segmentos = <<[tipo |-> "fixo", texto |-> <<"}">>],
                                 [tipo |-> "fixo", texto |-> <<"{", "CHAVE">>]>>
    /\ Concat(pmw.pars[1].runs) = <<"}", "{", "CHAVE">>

\* no value of the record holds a brace
SemChaves(dp) ==
    \A k \in DOMAIN dp : \A i \in DOMAIN dp[k] : dp[k][i] \notin {"{", "}"}

\* the rewriter applied once more, with the same record, to a rewritten paragraph
DeNovo(r) == processar_paragrafo(Paragrafo(r.style, r.runs), pmw.dp)

\* C23 (idempotence): when no value of the record holds "{" or "}", the
\* rewriter applied a second time with the same record to a paragraph it has
\* rewritten leaves the text of the paragraph as the first pass left it.
C23_Idempotente ==
    SemChaves(pmw.dp) =>
        \A k \in DOMAIN pmw.pars :
            Concat(DeNovo(pmw.pars[k]).runs) = Concat(pmw.pars[k].runs)

\* "}{}{" becomes "}{", which still holds both braces: the second pass scans
\* it and keeps it
C23_Witness ==
    /\ pmw.pc = "returned"
    /\ pmw.doc = << <<"}", "{", "}", "{">> >>
    /\ SemChaves(pmw.dp) /\ "CHAVE" \in DOMAIN pmw.dp
    /\ Concat(pmw.pars[1].runs) = <<"}", "{">>
    /\ Len(DeNovo(pmw.pars[1]).segmentos) = 2
    /\ Concat(DeNovo(pmw.pars[1]).runs) = <<"}", "{">>

\* C24 (run structure): the style of a paragraph is the one it had; a
\* paragraph whose text has no "{" or no "}" keeps the runs it had; any other
\* paragraph has exactly one run per segment with non-empty text, in segment
\* order, the runs of value segments blue, Bookman Old Style, 12 pt and the
\* runs of fixed segments without a font of their own.
C24_Runs ==
    \A k \in DOMAIN pmw.pars :
        LET t == pmw.doc[k]
            r == pmw.pars[k]
            cheios == SelectSeq(r.segmentos, LAMBDA g : g.texto # <<>>)
        IN  /\ r.style = pmw.estilo
            /\ IF (\A i \in DOMAIN t : t[i] # "{") \/ (\A i \in DOMAIN t : t[i] # "}")
               THEN /\ r.segmentos = <<>>
                    /\ r.runs = ParagrafoDoModelo(t, pmw.estilo).runs
               ELSE /\ r.segmentos # <<>>
                    /\ Len(r.runs) = Len(cheios)
                    /\ \A i \in DOMAIN r.runs :
                          /\ r.runs[i].texto = cheios[i].texto
                          /\ r.runs[i].texto # <<>>
                          /\ r.runs[i].tipo = cheios[i].tipo
                          /\ r.runs[i].tipo \in {"valor", "fixo"}
                          /\ r.runs[i].tipo = "valor" =>
                                r.runs[i].fonte = [rgb |-> "0000FF",
                                                   name |-> "Bookman Old Style",
                                                   size |-> 12]
                          /\ r.runs[i].tipo = "fixo" =>
                                r.runs[i].fonte = [rgb |-> "", name |-> "", size |-> 0]

\* "{CHAVE}a" in a Title paragraph: two segments and two runs, a styled
\* value and a plain fixed text, in a paragraph that is still a Title
C24_Witness ==
    /\ pmw.pc = "returned"
    /\ pmw.estilo = "Title"
    /\ pmw.doc = << <<"{", "CHAVE", "}", "a">> >>
    /\ pmw.dp = [k \in {"CHAVE"} |-> <<"v">>]
    /\ Len(pmw.pars[1].runs) = 2
    /\ pmw.pars[1].runs[1] = [tipo |-> "valor", texto |-> <<"v">>,
                              fonte |-> [rgb |-> "0000FF", name |-> "Bookman Old Style",
                                         size |-> 12]]
    /\ pmw.pars[1].runs[2].tipo = "fixo"
    /\ pmw.pars[1].runs[2].fonte.name = ""
    /\ pmw.pars[1].style = "Title"

\* the phase of a job: preamble, work, postamble, over
Fase(t) ==
    CASE t.wpc \in {"preamble", "before_work"} -> 1
      [] t.wpc = "work" -> 2
      [] t.wpc \in {"postamble", "emit_ok"} -> 3
      [] OTHER -> 4

\* the terminal state of a job whose run is over
Outcome(t) ==
    IF Last(t.emitted).sig = "finished_ok" THEN "Succeeded"
    ELSE IF Last(t.emitted) = Failed(Cancelada) THEN "Cancelled"
    ELSE "Failed"

\* a job is running
JobRunning == Len(threads) = 1 /\ isRunning(threads[1])

\* the job is over, with exactly one terminal notification, its last one
JobDone ==
    /\ Len(threads) = 1
    /\ ~isRunning(threads[1])
    /\ Len(Terminals(threads[1])) = 1
    /\ Last(threads[1].emitted).sig \in {"finished_ok", "failed"}
    /\ Outcome(threads[1]) \in {"Succeeded", "Failed", "Cancelled"}

\* C25 (job termination): under fair scheduling of the worker, of the work
\* call it makes and of the window's event loop, every started job comes to
\* its end with exactly one terminal notification (Succeeded, Failed or
\* Cancelled); the phase of a job never goes back (preamble, work, postamble,
\* over); and a job that has emitted finished_ok emitted the progress value
\* 100 just before it.
C25_Termination ==
    /\ JobRunning ~> JobDone
    /\ [][\A w \in DOMAIN threads :
            (~Created /\ w \in DOMAIN threads') =>
                Fase(threads'[w]) >= Fase(threads[w])]_vars
    /\ [](\A w \in DOMAIN threads :
            LET e == threads[w].emitted
            IN  /\ Len(Terminals(threads[w])) <= 1
                /\ (e # <<>> /\ Last(e).sig = "finished_ok") =>
                      /\ Len(e) > 1
                      /\ e[Len(e) - 1] = Progressed(ProgressMax)
                      /\ Fase(threads[w]) = 4)

\* a job that ran through its three phases and succeeded: sixteen
\* notifications, the last progress value 100
C25_Witness ==
    /\ Len(threads) = 1
    /\ threads[1].wpc = "finished"
    /\ threads[1].invoked
    /\ Len(threads[1].emitted) = 16
    /\ threads[1].emitted[15] = Progressed(100)
    /\ Outcome(threads[1]) = "Succeeded"
    /\ threads[1].resp = <<"o", "k">>

\* ------------------------------------------------ claims on the window
\* C26 (GUI control invariant), as claimed: while the worker is running the
\* Cancel button is enabled and the Run button is disabled, and when no worker
\* is running and the window has handled every notification the Run button is
\* enabled and the Cancel button is disabled.
C26_Botoes ==
    /\ (worker # 0 /\ isRunning(threads[worker])) => (btn_cancel /\ ~btn_run)
    /\ ((\A w \in DOMAIN threads : ~isRunning(threads[w])) /\ inbox = <<>>)
          => (btn_run /\ ~btn_cancel)

\* ------------------------------------------- claims on the two variants
\* C27 (analysis-only equivalence): for a call with gerar_word = False, at
\* every moment the remote calls te.analisar_pdfs has made are the first ones
\* main.analisar_pdfs made on the same list, outcome by outcome; when
\* te.analisar_pdfs is over it has made exactly the calls main.analisar_pdfs
\* made, in the same order, and it has ended the same way, returning the same
\* string (or raising the same error); and main.analisar_pdfs never reaches
\* its fill step.
C27_Equivalencia ==
    ~gerar_word =>
        /\ apc # "fill"
        /\ IsPrefix(te.calls, calls)
        /\ te.pc \in {"returned", "raised"} =>
              /\ te.calls = calls
              /\ te.pc = apc
              /\ te.ret = ret

\* two files uploaded, a blank answer of the agent, two deletes: both
\* variants made the same five calls and returned the sentinel
C27_Witness ==
    /\ ~gerar_word
    /\ te.pc = "returned"
    /\ apc = "returned"
    /\ Len(te.calls) = 5
    /\ te.calls[1].path = "b.PDF" /\ te.calls[2].path = "a.pdf"
    /\ te.calls[3].op = "analyze" /\ te.calls[3].ok
    /\ te.calls[5].op = "delete"
    /\ te.calls = calls
    /\ te.ret = SemConteudo
    /\ ret = SemConteudo

====
